---- MODULE Spec2Model ----
(***************************************************************************)
(* Model of the render-scheduled client step clock of                      *)
(* src/render/Renderer.js: Renderer.draw, Renderer.runClientStep and the   *)
(* 'client__stepReset' handler installed by the constructor.               *)
(*                                                                         *)
(* One call of runClientStep is split at the calls of clientEngine.step:   *)
(* the step function is a collaborator that runs synchronously inside the  *)
(* tick and may emit 'client__stepReset' while it runs, so the model has a *)
(* position "inside the step call" for each of the three call sites.       *)
(* Times are integers; the periods are even, so that p / 2 is the integer  *)
(* p \div 2 exactly as the floating point division of the source gives it. *)
(***************************************************************************)
EXTENDS Integers, Sequences, FiniteSets, TLC

\* Renderer.js line 5
TIME_RESET_THRESHOLD == 100

\* bounds of the model
MaxTick == 12
MaxSignals == 2
MaxCalls == 3

\* clientEngine.options.stepPeriod, clientEngine.options.scheduler and the
\* arguments of draw(t, dt) are inputs
Periods == {10, 16}
Schedulers == {"render-schedule", "fixed"}
TickTimes == {10 * k : k \in 0..MaxTick}
DtHints == {16}

VARIABLES
    stepPeriod,     \* clientEngine.options.stepPeriod
    scheduler,      \* clientEngine.options.scheduler as read by the latest draw
    doReset,        \* this.doReset
    lastStepTime,   \* clientEngine.lastStepTime
    correction,     \* clientEngine.correction
    pc,             \* position inside runClientStep, "idle" between draws
    t,              \* argument t of the current or latest runClientStep
    calls,          \* clientEngine.step invocations of the current or latest runClientStep
    entry,          \* history: clock state and flag when that runClientStep was entered
    resets,         \* history: number of times that runClientStep ran the reset block
    signals,        \* history: 'client__stepReset' events since the latest reset check
    drawn           \* history: what the latest draw did

vars == <<stepPeriod, scheduler, doReset, lastStepTime, correction, pc, t,
          calls, entry, resets, signals, drawn>>

clock == <<lastStepTime, correction>>

----------------------------------------------------------------------------
\* p / 2 for the even periods of the model
Half(p) == p \div 2

\* the threshold test taken as t >= lastStepTime + TIME_RESET_THRESHOLD
ResetDueInclusive(flag, tt, lst) == flag \/ tt >= lst + TIME_RESET_THRESHOLD

\* line 70: this.doReset || t > this.clientEngine.lastStepTime + TIME_RESET_THRESHOLD
ResetDue(flag, tt, lst) == flag \/ tt > lst + TIME_RESET_THRESHOLD

\* the reset half a period ahead of t instead of behind it
ResetLastStepTimeAhead(tt, p) == tt + Half(p)

\* the reset without the half period
ResetLastStepTimeNow(tt, p) == tt

\* line 72: t - p / 2
ResetLastStepTime(tt, p) == tt - Half(p)

\* the reset without a correction
ResetCorrectionZero(p) == 0

\* line 73: p / 2
ResetCorrection(p) == Half(p)

\* the loop test giving up one period early
CatchUpDueLate(tt, lst, p) == tt > lst + p + p

\* the loop test without the period
CatchUpDueNoPeriod(tt, lst, p) == tt > lst

\* line 79: t > this.clientEngine.lastStepTime + p
CatchUpDue(tt, lst, p) == tt > lst + p

\* the early test taking the boundary itself as early
NotReadyInclusive(tt, lst) == tt <= lst

\* line 89: t < this.clientEngine.lastStepTime
NotReady(tt, lst) == tt < lst

\* the early branch without the clamp
ClampDtMissing(d) == d

\* line 94: if (dt < 0) dt = 0
ClampDt(d) == IF d < 0 THEN 0 ELSE d

\* the elapsed time without the correction carried over
ElapsedDtNoCorrection(tt, lst, corr) == tt - lst

\* lines 93 and 105: t - lastStepTime + correction
ElapsedDt(tt, lst, corr) == tt - lst + corr

\* the step boundary moved the wrong way
NextStepTimeBack(lst, p) == lst - p

\* lines 82, 83 and 106: lastStepTime + p
NextStepTime(lst, p) == lst + p

\* clientEngine.step(time, dt, isProvisional) as seen by the collaborator;
\* path names the call site
StepCall(time, d, prov, path) ==
    [time |-> time, dt |-> d, prov |-> prov, path |-> path]

----------------------------------------------------------------------------
\* constructor (lines 20-29): the clock of the client engine starts at zero,
\* this.doReset is not set yet (falsy)
Init ==
    /\ stepPeriod \in Periods
    /\ scheduler = "render-schedule"
    /\ doReset = FALSE
    /\ lastStepTime = 0
    /\ correction = 0
    /\ pc = "idle"
    /\ t = 0
    /\ calls = <<>>
    /\ entry = [lst |-> 0, corr |-> 0, doReset |-> FALSE, tPrev |-> 0,
                signals |-> 0]
    /\ resets = 0
    /\ signals = 0
    /\ drawn = "none"

\* constructor (lines 20-22) given a client engine whose clock is in any
\* state: lastStepTime and correction are fields of the clientEngine
\* argument, which the constructor does not set
SeedTimes == {-30, 0, 45}
SeedCorrections == {-7, 0, 5}

InitSeeded ==
    /\ stepPeriod \in Periods
    /\ scheduler = "render-schedule"
    /\ doReset = FALSE
    /\ lastStepTime \in SeedTimes
    /\ correction \in SeedCorrections
    /\ pc = "idle"
    /\ t = 0
    /\ calls = <<>>
    /\ entry = [lst |-> lastStepTime, corr |-> correction, doReset |-> FALSE,
                tPrev |-> 0, signals |-> 0]
    /\ resets = 0
    /\ signals = 0
    /\ drawn = "none"

\* a handler that also ends the tick in progress
StepResetAborting ==
    /\ pc \in {"idle", "catchupStep", "earlyStep", "normalStep"}
    /\ signals < MaxSignals
    /\ doReset' = TRUE
    /\ signals' = signals + 1
    /\ pc' = "idle"
    /\ UNCHANGED <<stepPeriod, scheduler, lastStepTime, correction, t,
                   calls, entry, resets, drawn>>

\* line 23: gameEngine.on('client__stepReset', () => { this.doReset = true; })
\* The event is emitted between draws or by the step function while it runs.
StepReset ==
    /\ pc \in {"idle", "catchupStep", "earlyStep", "normalStep"}
    /\ signals < MaxSignals
    /\ doReset' = TRUE
    /\ signals' = signals + 1
    /\ UNCHANGED <<stepPeriod, scheduler, lastStepTime, correction, pc, t,
                   calls, entry, resets, drawn>>

\* lines 68-76: entry of runClientStep and the reset block
RunClientStepEnter(tt) ==
    /\ t' = tt
    /\ calls' = <<>>
    /\ entry' = [lst |-> lastStepTime, corr |-> correction,
                 doReset |-> doReset, tPrev |-> t, signals |-> signals]
    /\ signals' = 0
    /\ IF ResetDue(doReset, tt, lastStepTime)
       THEN /\ doReset' = FALSE
            /\ lastStepTime' = ResetLastStepTime(tt, stepPeriod)
            /\ correction' = ResetCorrection(stepPeriod)
            /\ resets' = 1
       ELSE /\ UNCHANGED <<doReset, lastStepTime, correction>>
            /\ resets' = 0
    /\ pc' = "catchup"

\* draw without the test of the scheduler option
DrawAlways(tt, dtHint, sched) ==
    /\ pc = "idle"
    /\ scheduler' = sched
    /\ UNCHANGED stepPeriod
    /\ RunClientStepEnter(tt)
    /\ drawn' = "ran"

\* lines 55-58: draw(t, dt)
Draw(tt, dtHint, sched) ==
    /\ pc = "idle"
    /\ scheduler' = sched
    /\ UNCHANGED stepPeriod
    /\ IF sched = "render-schedule"
       THEN /\ RunClientStepEnter(tt)
            /\ drawn' = "ran"
       ELSE /\ drawn' = "skipped"
            /\ UNCHANGED <<doReset, lastStepTime, correction, pc, t, calls,
                           entry, resets, signals>>

\* lines 79-82: the loop test holds, clientEngine.step is called
CatchUpCall ==
    /\ pc = "catchup"
    /\ CatchUpDue(t, lastStepTime, stepPeriod)
    /\ calls' = Append(calls, StepCall(NextStepTime(lastStepTime, stepPeriod),
                                       stepPeriod + correction, FALSE, "catchup"))
    /\ pc' = "catchupStep"
    /\ UNCHANGED <<stepPeriod, scheduler, doReset, lastStepTime, correction, t,
                   entry, resets, signals, drawn>>

\* the loop body without correction = 0
CatchUpReturnKeepCorrection ==
    /\ pc = "catchupStep"
    /\ lastStepTime' = NextStepTime(lastStepTime, stepPeriod)
    /\ pc' = "catchup"
    /\ UNCHANGED <<stepPeriod, scheduler, doReset, correction, t, calls,
                   entry, resets, signals, drawn>>

\* lines 83-84: the step call of the loop returned
CatchUpReturn ==
    /\ pc = "catchupStep"
    /\ lastStepTime' = NextStepTime(lastStepTime, stepPeriod)
    /\ correction' = 0
    /\ pc' = "catchup"
    /\ UNCHANGED <<stepPeriod, scheduler, doReset, t, calls, entry, resets,
                   signals, drawn>>

\* the early branch calling step without the provisional flag
EarlyStepNotProvisional ==
    /\ pc = "catchup"
    /\ ~CatchUpDue(t, lastStepTime, stepPeriod)
    /\ NotReady(t, lastStepTime)
    /\ correction' = lastStepTime - t
    /\ calls' = Append(calls, StepCall(t,
                    ClampDt(ElapsedDt(t, lastStepTime, correction)), FALSE, "early"))
    /\ pc' = "earlyStep"
    /\ UNCHANGED <<stepPeriod, scheduler, doReset, lastStepTime, t, entry,
                   resets, signals, drawn>>

\* lines 89-96: the loop is over and t < lastStepTime
EarlyStep ==
    /\ pc = "catchup"
    /\ ~CatchUpDue(t, lastStepTime, stepPeriod)
    /\ NotReady(t, lastStepTime)
    /\ correction' = lastStepTime - t
    /\ calls' = Append(calls, StepCall(t,
                    ClampDt(ElapsedDt(t, lastStepTime, correction)), TRUE, "early"))
    /\ pc' = "earlyStep"
    /\ UNCHANGED <<stepPeriod, scheduler, doReset, lastStepTime, t, entry,
                   resets, signals, drawn>>

\* the normal branch taking the correction before it advances lastStepTime
NormalStepStaleCorrection ==
    /\ pc = "catchup"
    /\ ~CatchUpDue(t, lastStepTime, stepPeriod)
    /\ ~NotReady(t, lastStepTime)
    /\ lastStepTime' = NextStepTime(lastStepTime, stepPeriod)
    /\ correction' = lastStepTime - t
    /\ calls' = Append(calls, StepCall(t,
                    ElapsedDt(t, lastStepTime, correction), FALSE, "normal"))
    /\ pc' = "normalStep"
    /\ UNCHANGED <<stepPeriod, scheduler, doReset, t, entry, resets, signals,
                   drawn>>

\* lines 105-108: the loop is over and t >= lastStepTime
NormalStep ==
    /\ pc = "catchup"
    /\ ~CatchUpDue(t, lastStepTime, stepPeriod)
    /\ ~NotReady(t, lastStepTime)
    /\ lastStepTime' = NextStepTime(lastStepTime, stepPeriod)
    /\ correction' = lastStepTime' - t
    /\ calls' = Append(calls, StepCall(t,
                    ElapsedDt(t, lastStepTime, correction), FALSE, "normal"))
    /\ pc' = "normalStep"
    /\ UNCHANGED <<stepPeriod, scheduler, doReset, t, entry, resets, signals,
                   drawn>>

\* lines 97 and 112: the last step call returned and so does runClientStep
StepReturn ==
    /\ pc \in {"earlyStep", "normalStep"}
    /\ pc' = "idle"
    /\ UNCHANGED <<stepPeriod, scheduler, doReset, lastStepTime, correction, t,
                   calls, entry, resets, signals, drawn>>

Next ==
    \/ \E tt \in TickTimes, dtHint \in DtHints, sched \in Schedulers :
           Draw(tt, dtHint, sched)
    \/ StepReset
    \/ CatchUpCall
    \/ CatchUpReturn
    \/ EarlyStep
    \/ NormalStep
    \/ StepReturn

Spec == Init /\ [][Next]_vars

SpecSeeded == InitSeeded /\ [][Next]_vars

\* the statements of runClientStep between its entry and its return: the
\* call is synchronous, so once draw has entered it the next statement is
\* always executed (a step invocation is taken to return)
TickStep ==
    \/ CatchUpCall
    \/ CatchUpReturn
    \/ EarlyStep
    \/ NormalStep
    \/ StepReturn

SpecFair == InitSeeded /\ [][Next]_vars /\ WF_vars(TickStep)

\* lines 55-58 called by a host loop whose time does not go back: t is not
\* below the t of the latest runClientStep
DrawOrdered(tt, dtHint, sched) ==
    /\ tt >= t
    /\ Draw(tt, dtHint, sched)

NextOrdered ==
    \/ \E tt \in TickTimes, dtHint \in DtHints, sched \in Schedulers :
           DrawOrdered(tt, dtHint, sched)
    \/ StepReset
    \/ CatchUpCall
    \/ CatchUpReturn
    \/ EarlyStep
    \/ NormalStep
    \/ StepReturn

SpecOrdered == Init /\ [][NextOrdered]_vars

\* constructor (lines 20-29) given a client engine configured with a step
\* period that is not positive: nothing in the constructor, in draw or in
\* runClientStep tests options.stepPeriod
NonPositivePeriods == {-10, 0}

InitNonPositive ==
    /\ stepPeriod \in NonPositivePeriods
    /\ scheduler = "render-schedule"
    /\ doReset = FALSE
    /\ lastStepTime = 0
    /\ correction = 0
    /\ pc = "idle"
    /\ t = 0
    /\ calls = <<>>
    /\ entry = [lst |-> 0, corr |-> 0, doReset |-> FALSE, tPrev |-> 0,
                signals |-> 0]
    /\ resets = 0
    /\ signals = 0
    /\ drawn = "none"

\* lines 79-82, the loop followed for MaxCalls iterations only: with a
\* period <= 0 the loop test of line 79 stays true
CatchUpCallCapped ==
    /\ Len(calls) < MaxCalls
    /\ CatchUpCall

NextCapped ==
    \/ \E tt \in TickTimes, dtHint \in DtHints, sched \in Schedulers :
           Draw(tt, dtHint, sched)
    \/ StepReset
    \/ CatchUpCallCapped
    \/ CatchUpReturn
    \/ EarlyStep
    \/ NormalStep
    \/ StepReturn

SpecNonPositive == InitNonPositive /\ [][NextCapped]_vars

----------------------------------------------------------------------------
TypeOK ==
    /\ stepPeriod \in Periods
    /\ scheduler \in Schedulers
    /\ doReset \in BOOLEAN
    /\ lastStepTime \in Int
    /\ correction \in Int
    /\ pc \in {"idle", "catchup", "catchupStep", "earlyStep", "normalStep"}
    /\ t \in TickTimes
    /\ resets \in 0..1
    /\ signals \in 0..MaxSignals
    /\ drawn \in {"none", "skipped", "ran"}

----------------------------------------------------------------------------
\* the latest draw ran runClientStep, which has returned
TickDone == pc = "idle" /\ drawn = "ran"

\* the latest draw ran runClientStep, which may still be running
InTick == drawn = "ran"

\* C1: every dt that runClientStep passes to clientEngine.step, on the
\* catch-up, the early and the normal call site, is >= 0, whatever the
\* order of the timestamps and of the reset signals.
C1_NoNegativeDt ==
    \A i \in 1..Len(calls) : calls[i].dt >= 0

\* a tick whose timestamp went back met the clamp: the elapsed time of the
\* early branch was negative and 0 was passed
C1_Witness ==
    /\ TickDone
    /\ t < entry.tPrev
    /\ Len(calls) = 1
    /\ calls[1].path = "early"
    /\ calls[1].dt = 0
    /\ t - lastStepTime + entry.corr < 0

\* C2: a tick entered with doReset set has lastStepTime = t - p/2,
\* correction = p/2 and the flag cleared before its first step invocation,
\* and the flag stays cleared as long as no new signal is raised.
C2_ResetRecentering ==
    (InTick /\ entry.doReset) =>
        /\ resets = 1
        /\ (pc = "catchup" /\ calls = <<>>) =>
              /\ 2 * lastStepTime = 2 * t - stepPeriod
              /\ 2 * correction = stepPeriod
              /\ ~doReset
        /\ signals = 0 => ~doReset

\* a tick reset by the signal alone (the threshold test fails) stands before
\* its first step invocation
C2_Witness ==
    /\ InTick /\ entry.doReset
    /\ pc = "catchup" /\ calls = <<>>
    /\ t <= entry.lst + TIME_RESET_THRESHOLD
    /\ entry.lst # lastStepTime

\* C3: period 16, lastStepTime 0, correction 0, no pending reset, t = 100:
\* six catch-up invocations with dt = 16, lastStepTime = 96 when the loop
\* ends, then one normal invocation with dt = 100 - 96 + 0 = 4.
C3_Scenario ==
    /\ InTick
    /\ stepPeriod = 16
    /\ entry.lst = 0 /\ entry.corr = 0 /\ ~entry.doReset
    /\ t = 100

C3_CatchUpCount ==
    C3_Scenario =>
        /\ resets = 0
        /\ pc # "earlyStep"
        /\ \A i \in 1..Len(calls) : i <= 6 =>
               calls[i] = [time |-> 16 * i, dt |-> 16, prov |-> FALSE,
                           path |-> "catchup"]
        /\ pc = "catchup" => Len(calls) <= 6 /\ lastStepTime = 16 * Len(calls)
        /\ pc = "catchupStep" => Len(calls) <= 6
        /\ pc \in {"normalStep", "idle"} =>
               /\ Len(calls) = 7
               /\ calls[7] = [time |-> 100, dt |-> 4, prov |-> FALSE,
                              path |-> "normal"]
               /\ lastStepTime = 96 + 16

C3_Witness ==
    C3_Scenario /\ pc = "idle" /\ Len(calls) = 7

ResetStep == pc = "idle" /\ pc' = "catchup" /\ resets' = 1

\* C5: lastStepTime never decreases in a step that is not a reset, and a
\* tick without reset whose timestamp is not below the previous one ends
\* with lastStepTime >= its value at the end of the previous tick.
C5_MonotonicLastStepTime ==
    /\ [][~ResetStep => lastStepTime' >= lastStepTime]_vars
    /\ [](TickDone /\ resets = 0 /\ t >= entry.tPrev =>
              lastStepTime >= entry.lst)

\* the second of two ticks, no reset, time moved on and so did lastStepTime
C5_Witness ==
    /\ TickDone
    /\ resets = 0
    /\ entry.lst > 0
    /\ t > entry.tPrev
    /\ lastStepTime > entry.lst

\* C6: draw with a scheduler option other than 'render-schedule' invokes no
\* step, leaves lastStepTime, correction and the position unchanged and
\* leaves doReset as it is; the flag is cleared by nothing but the entry of
\* runClientStep in a draw with 'render-schedule'.
C6_ModeGate ==
    [][/\ (\E tt \in TickTimes, dtHint \in DtHints,
              sched \in Schedulers \ {"render-schedule"} :
                  Draw(tt, dtHint, sched))
           => UNCHANGED <<lastStepTime, correction, doReset, calls, pc, t,
                          resets, signals>>
       /\ (doReset /\ ~doReset')
           => (pc = "idle" /\ pc' = "catchup"
                  /\ scheduler' = "render-schedule")]_vars

\* a draw in another mode has happened and a reset is still pending
C6_Witness ==
    /\ drawn = "skipped"
    /\ scheduler # "render-schedule"
    /\ doReset
    /\ signals > 0
    /\ pc = "idle"

\* C7 as stated: a tick resets iff the flag was set or
\* t > lastStepTime + period + TIME_RESET_THRESHOLD.
C7_ResetIffWithPeriod ==
    InTick =>
        (resets = 1 <=>
            (entry.doReset
                \/ t > entry.lst + stepPeriod + TIME_RESET_THRESHOLD))

\* C7 amended: a tick resets iff the flag was set when it started or
\* t > lastStepTime + TIME_RESET_THRESHOLD (the period is not added).
C7_ResetIff ==
    InTick =>
        (resets = 1 <=>
            (entry.doReset \/ t > entry.lst + TIME_RESET_THRESHOLD))

\* a reset by the threshold alone, at a gap that is within
\* period + TIME_RESET_THRESHOLD
C7_Witness ==
    /\ TickDone
    /\ resets = 1
    /\ ~entry.doReset
    /\ t > entry.lst + TIME_RESET_THRESHOLD
    /\ t <= entry.lst + stepPeriod + TIME_RESET_THRESHOLD

\* C8 as stated: after a tick without reset, lastStepTime <= t.
C8_NotAheadOfTime ==
    (TickDone /\ resets = 0) => lastStepTime <= t

\* C8 amended: after a tick without reset, lastStepTime >= t (the step
\* boundary is never behind the observed time).
C8_NotBehindTime ==
    (TickDone /\ resets = 0) => lastStepTime >= t

\* a tick without reset that caught up and ended strictly ahead of t
C8_Witness ==
    /\ TickDone
    /\ resets = 0
    /\ Len(calls) > 1
    /\ lastStepTime > t

\* the call sites used by the current or latest runClientStep
Paths == {calls[i].path : i \in 1..Len(calls)}

\* number of invocations made from one call site
CountPath(path) == Cardinality({i \in 1..Len(calls) : calls[i].path = path})

\* C9 as stated: a tick uses at most one of the catch-up, early and normal
\* call sites.
C9_AtMostOnePath ==
    Cardinality(Paths) <= 1

\* C9 amended: a tick makes at most one early or normal invocation in
\* total and never both catch-up and early invocations; catch-up and
\* normal are not exclusive: once the loop has ended after catch-up
\* invocations, the normal branch runs in the same tick.
C9_Paths ==
    /\ CountPath("early") + CountPath("normal") <= 1
    /\ ~({"catchup", "early"} \subseteq Paths)
    /\ (pc \in {"earlyStep", "normalStep", "idle"} /\ "catchup" \in Paths)
           => calls[Len(calls)].path = "normal"

\* a tick that made catch-up invocations and then the normal one
C9_Witness ==
    /\ TickDone
    /\ Paths = {"catchup", "normal"}
    /\ CountPath("catchup") >= 2

\* C10: a 'client__stepReset' event, between ticks or from inside a step
\* invocation, changes nothing of the tick in progress; the flag it sets
\* stays set until the entry of the next runClientStep, which resets once
\* however many events were raised, and nothing else clears the flag.
C10_SignalDeferred ==
    /\ [][/\ StepReset =>
                (doReset' /\ UNCHANGED <<lastStepTime, correction, pc, t,
                                         calls, resets, entry>>)
          /\ (doReset /\ ~doReset') => (pc = "idle" /\ pc' = "catchup")
          /\ (pc # "idle" /\ pc' # "idle") => resets' = resets]_vars
    /\ [](signals > 0 => doReset)
    /\ [](InTick =>
            /\ (entry.signals > 0 => entry.doReset /\ resets = 1)
            /\ (signals = 0 /\ resets = 1 => ~doReset)
            /\ (~entry.doReset /\ t <= entry.lst + TIME_RESET_THRESHOLD
                  => resets = 0))

\* a tick that started with two events pending and reset once, during which
\* an event was raised from inside a step invocation
C10_Witness ==
    /\ InTick
    /\ entry.signals = 2
    /\ resets = 1
    /\ pc \in {"catchupStep", "earlyStep", "normalStep"}
    /\ signals = 1
    /\ doReset

\* C11: with a step period <= 0 the renderer refuses to operate: no tick
\* invokes the step function, from the catch-up loop or after it.
C11_RefusesNonPositivePeriod ==
    stepPeriod <= 0 => (calls = <<>> /\ pc # "catchupStep")

\* number of catch-up invocations of the current or latest runClientStep
CatchUps == CountPath("catchup")

\* lastStepTime when the catch-up loop of that runClientStep was entered
LoopEntryTime ==
    IF resets = 1 THEN t - Half(stepPeriod) ELSE entry.lst

\* C12 as stated: every tick terminates and its number k of catch-up
\* invocations satisfies k * period < t - L, L being lastStepTime when the
\* loop is entered, and k * period < TIME_RESET_THRESHOLD.
C12_CatchUpBoundAlways ==
    TickDone =>
        /\ CatchUps * stepPeriod < t - LoopEntryTime
        /\ CatchUps * stepPeriod < TIME_RESET_THRESHOLD

\* C12 amended: every tick terminates; a tick with k >= 1 catch-up
\* invocations has k * period < t - L (a tick with t <= L + period has
\* k = 0); a tick that reset has k = 0; and k * period <
\* TIME_RESET_THRESHOLD in every tick.
C12_CatchUpBound ==
    /\ [](InTick =>
            /\ (CatchUps >= 1 => CatchUps * stepPeriod < t - LoopEntryTime)
            /\ (t <= LoopEntryTime + stepPeriod => CatchUps = 0)
            /\ (resets = 1 => CatchUps = 0)
            /\ CatchUps * stepPeriod < TIME_RESET_THRESHOLD)
    /\ (pc # "idle" ~> pc = "idle")

\* a tick that returned after the longest catch-up burst the threshold
\* allows for its period
C12_Witness ==
    /\ TickDone
    /\ resets = 0
    /\ CatchUps >= 1
    /\ (CatchUps + 1) * stepPeriod >= TIME_RESET_THRESHOLD

\* C13: when t < lastStepTime after the reset test and the loop, the tick
\* makes exactly one step invocation: time t, dt = max(0, t - lastStepTime
\* + correction) with the correction held before the tick, provisional;
\* lastStepTime stays, correction becomes lastStepTime - t and the normal
\* branch does not run.
C13_EarlyCall ==
    [time |-> t,
     dt |-> IF t - entry.lst + entry.corr < 0 THEN 0
            ELSE t - entry.lst + entry.corr,
     prov |-> TRUE, path |-> "early"]

C13_EarlyBranch ==
    /\ [][(pc = "catchup" /\ t <= lastStepTime + stepPeriod
              /\ t < lastStepTime)
            => /\ pc' = "earlyStep"
               /\ calls' = <<C13_EarlyCall>>
               /\ lastStepTime' = lastStepTime
               /\ correction' = lastStepTime - t]_vars
    /\ []((InTick /\ (pc = "earlyStep" \/ "early" \in Paths)) =>
            /\ calls = <<C13_EarlyCall>>
            /\ resets = 0
            /\ lastStepTime = entry.lst
            /\ correction = lastStepTime - t)

\* an early tick that returned, with a positive elapsed time reported
C13_Witness ==
    /\ TickDone
    /\ t < lastStepTime
    /\ Len(calls) = 1
    /\ calls[1].prov
    /\ calls[1].dt > 0
    /\ entry.corr > 0

\* correction when the catch-up loop of the current or latest runClientStep
\* was entered
LoopEntryCorrection ==
    IF resets = 1 THEN Half(stepPeriod) ELSE entry.corr

\* C14: the i-th iteration of a tick's catch-up loop invokes the step
\* function with time = L + i * period < t (L = lastStepTime at loop entry)
\* and dt = period + correction, then adds the period to lastStepTime and
\* zeroes correction; so dt = period from the second iteration on, and the
\* loop ends, after at least one iteration, with
\* lastStepTime < t <= lastStepTime + period.
C14_CatchUpLoop ==
    /\ [][(pc = "catchupStep" /\ pc' = "catchup") =>
              /\ lastStepTime' = lastStepTime + stepPeriod
              /\ correction' = 0
              /\ calls' = calls]_vars
    /\ [](InTick =>
            /\ \A i \in 1..Len(calls) : calls[i].path = "catchup" =>
                 /\ calls[i].time = LoopEntryTime + i * stepPeriod
                 /\ calls[i].time < t
                 /\ calls[i].dt = stepPeriod
                        + (IF i = 1 THEN LoopEntryCorrection ELSE 0)
                 /\ ~calls[i].prov
            /\ pc = "catchupStep" =>
                 /\ lastStepTime + stepPeriod = calls[Len(calls)].time
                 /\ calls[Len(calls)].dt = stepPeriod + correction
            /\ (pc = "catchup" /\ CatchUps >= 1) =>
                 /\ lastStepTime = LoopEntryTime + CatchUps * stepPeriod
                 /\ correction = 0
                 /\ lastStepTime < t
            /\ (pc \in {"earlyStep", "normalStep", "idle"} /\ CatchUps >= 1) =>
                 /\ LoopEntryTime + CatchUps * stepPeriod < t
                 /\ t <= LoopEntryTime + CatchUps * stepPeriod + stepPeriod)

\* a burst of several iterations whose first one carried a correction
C14_Witness ==
    /\ TickDone
    /\ CatchUps >= 3
    /\ calls[1].dt # stepPeriod
    /\ calls[2].dt = stepPeriod

\* C15: a tick that resets, by the signal or by the threshold, makes exactly
\* one step invocation: normal call site, not provisional, time t,
\* dt = period; it ends with lastStepTime = t + period/2 and
\* correction = period/2.
C15_ResetTick ==
    (InTick /\ resets = 1) =>
        /\ pc \notin {"catchupStep", "earlyStep"}
        /\ pc = "catchup" => calls = <<>>
        /\ pc \in {"normalStep", "idle"} =>
             /\ calls = <<[time |-> t, dt |-> stepPeriod, prov |-> FALSE,
                           path |-> "normal"]>>
             /\ 2 * lastStepTime = 2 * t + stepPeriod
             /\ 2 * correction = stepPeriod

\* a tick that reset because of the threshold alone and has returned
C15_Witness ==
    /\ TickDone
    /\ resets = 1
    /\ ~entry.doReset
    /\ Len(calls) = 1
    /\ entry.lst + TIME_RESET_THRESHOLD < t

\* sum of the dt arguments of a sequence of step invocations
RECURSIVE SumDt(_)
SumDt(cs) == IF cs = <<>> THEN 0 ELSE Head(cs).dt + SumDt(Tail(cs))

\* C16: the dt values a tick without reset passes to the step function add
\* up to t - (t of the previous tick) when time did not go back, and the
\* clamp of the early branch does not cut anything off in such a tick. (The
\* first tick counts from the initial clock, lastStepTime 0 at time 0.)
C16_ElapsedConserved ==
    (TickDone /\ resets = 0 /\ t >= entry.tPrev) =>
        /\ SumDt(calls) = t - entry.tPrev
        /\ calls[Len(calls)].prov => t - lastStepTime + entry.corr >= 0

\* the second of two ticks, with a catch-up burst that carried a correction
C16_Witness ==
    /\ TickDone
    /\ resets = 0
    /\ entry.lst > 0
    /\ entry.corr > 0
    /\ t > entry.tPrev
    /\ CatchUps >= 2
    /\ SumDt(calls) = t - entry.tPrev

\* C17: when a tick returns, whichever of the reset block, the loop, the
\* early and the normal branch ran, correction = lastStepTime - t.
C17_CorrectionIsDrift ==
    TickDone => correction = lastStepTime - t

\* a tick that returned after catch-up and the normal branch, with a
\* correction other than the one it was entered with
C17_Witness ==
    /\ TickDone
    /\ CatchUps >= 1
    /\ correction # entry.corr
    /\ correction > 0

\* C18: from lastStepTime = 0, correction = 0, with timestamps >= 0 that
\* never go back, every tick, with or without reset signals, returns with
\* 0 <= correction <= period.
C18_DriftBounded ==
    TickDone => (0 <= correction /\ correction <= stepPeriod)

\* an early tick at a later time than the tick before it returned with a
\* correction strictly between 0 and the period
C18_Witness ==
    /\ TickDone
    /\ calls[Len(calls)].prov
    /\ t > entry.tPrev
    /\ entry.lst > 0
    /\ 0 < correction /\ correction < stepPeriod

C20_NoSilentDefer ==
    /\ [][/\ (pc = "catchup" /\ pc' = "normalStep")
                => (lastStepTime' # lastStepTime
                      /\ ~calls'[Len(calls')].prov)
          /\ (pc = "catchup" /\ pc' = "earlyStep")
                => (lastStepTime' = lastStepTime
                      /\ calls'[Len(calls')].prov)
          /\ (pc' = "idle" /\ pc # "idle")
                => (pc \in {"earlyStep", "normalStep"} /\ calls' = calls
                      /\ lastStepTime' = lastStepTime)]_vars
    /\ [](TickDone =>
            /\ Len(calls) >= 1
            /\ calls[Len(calls)].time = t
            /\ (calls[Len(calls)].prov <=>
                  (resets = 0 /\ lastStepTime = entry.lst)))

\* a tick that reset and advanced, and so made a non-provisional
\* invocation, although it returned with the lastStepTime it started with
C20_Witness ==
    /\ TickDone
    /\ resets = 1
    /\ ~calls[Len(calls)].prov
    /\ calls[Len(calls)].time = t
    /\ lastStepTime = entry.lst

====
